---- MODULE Spec2Model ----
(***************************************************************************)
(* Live auction engine of the cricket auction application.                 *)
(*                                                                         *)
(* The model covers src/src/auction/manager.py (AuctionManager, the bid    *)
(* tier table) and the HTTP status endpoints of src/src/routers/           *)
(* auctions.py that write the same AuctionEvent row from another session.  *)
(*                                                                         *)
(* Money: the code computes with Decimal(str(x)); amounts are modelled as  *)
(* exact decimals with two places, stored as integers counting 1/100 of a  *)
(* unit (1.10 is 110).  None is Null.                                      *)
(*                                                                         *)
(* Storage and ORM session.  `auction` is the stored AuctionEvent row.     *)
(* `self_auction` is the AuctionManager's loaded instance self.auction,    *)
(* as constructed by AuctionManager.__init__ over its session self.db.     *)
(* The session is created with expire_on_commit left at its default, so    *)
(* commit() expires the instance and the refresh() that follows every      *)
(* commit in the manager reloads it from the stored row.  A query whose    *)
(* row belongs to an instance that is already loaded in the session        *)
(* returns that instance with its loaded attributes; with_for_update()     *)
(* does not imply populate_existing().  So the instance place_bid calls    *)
(* locked_auction is self.auction.  All handlers of one process run on one *)
(* event loop and no manager method awaits, so each method is one step.    *)
(*                                                                         *)
(* Connection hub (src/src/auction/websocket.py).  Every websocket has one *)
(* handler coroutine.  A handler runs without interruption from one await  *)
(* to the next; the awaits at which other handlers can run are the sends   *)
(* to a websocket and the wait for the next inbound message.  A step of    *)
(* the hub is the code of one handler from the point where it resumes up   *)
(* to and including its next send.  The row lock that place_bid takes with *)
(* SELECT ... FOR UPDATE belongs to the manager's session and is released  *)
(* by the next commit of that session.                                     *)
(***************************************************************************)
EXTENDS Integers, Sequences, FiniteSets, TLC

VARIABLES
    auction,       \* stored AuctionEvent row: status and the spotlight triple
    self_auction,  \* AuctionManager.auction, the manager's loaded instance
    players,       \* AuctionPlayer rows, by id
    teams,         \* Team rows, by id
    bids,          \* AuctionBid rows, in creation order
    team_players,  \* TeamPlayer rows, in creation order
    transfers,     \* PlayerTransfer rows, in creation order
    last,          \* outcome of the most recent call: return value or error
    tier_in,       \* arguments of a get_minimum_bid call
    tier_out,      \* its result
    connections,   \* ConnectionManager.connections: auction id -> websockets
    managers,      \* ConnectionManager.managers: auction ids with a manager
    handler,       \* per websocket: position and locals of its handler
    received,      \* per websocket: the messages sent to it, in order
    peer_gone,     \* websockets whose client has gone away
    row_lock,      \* websocket whose handler holds the auction row lock
    commits,       \* number of committed mutations of the auction
    handled        \* number of inbound messages handled

hub_vars == <<connections, managers, handler, received, peer_gone, row_lock,
              commits, handled>>

vars == <<auction, self_auction, players, teams, bids, team_players,
          transfers, last, tier_in, tier_out, connections, managers,
          handler, received, peer_gone, row_lock, commits, handled>>

----------------------------------------------------------------------------
(* Values *)

Null == -1

Infinity == 1000000

AuctionPlayerIds == {1, 2}

\* auction_player_id arguments: the pool and an id that is not in it
PlayerIdInputs == {1, 2, 3}

TeamIds == {1, 2}

\* team_id arguments: the auction's teams and a team of another auction
TeamIdInputs == {1, 2, 3}

PoolBasePrice == <<95, 100>>

InitialPurse == 200

BidAmounts == {95, 100, 110}

MaxBids == 2

TierMaxBid == 620

TierBasePrices == {20, 100}

\* The auction of the model and another auction served by the same hub
AuctionId == 1

AuctionIds == {1, 2}

\* The websockets that are accepted in one run of the hub
Websockets == {1, 2}

MaxHandled == 2

----------------------------------------------------------------------------
(* BidIncrementTier table and the minimum bid *)

DEFAULT_TIERS ==
    << [min_bid |-> 0,   max_bid |-> 100,      increment |-> 5],
       [min_bid |-> 100, max_bid |-> 200,      increment |-> 10],
       [min_bid |-> 200, max_bid |-> 500,      increment |-> 20],
       [min_bid |-> 500, max_bid |-> Infinity, increment |-> 25] >>

bid_tiers == DEFAULT_TIERS

\* Decimal addition: Infinity absorbs a finite increment.
DecimalAdd(a, b) == IF a = Infinity THEN Infinity ELSE a + b

RECURSIVE TierLoop(_, _, _)
TierLoop(tiers, bid, i) ==
    IF i > Len(tiers)
    THEN tiers[Len(tiers)].increment
    ELSE IF tiers[i].min_bid <= bid /\ bid < tiers[i].max_bid
         THEN tiers[i].increment
         ELSE TierLoop(tiers, bid, i + 1)

RECURSIVE TierLoopUpperInclusive(_, _, _)
TierLoopUpperInclusive(tiers, bid, i) ==
    IF i > Len(tiers)
    THEN tiers[Len(tiers)].increment
    ELSE IF tiers[i].min_bid <= bid /\ bid <= tiers[i].max_bid
         THEN tiers[i].increment
         ELSE TierLoopUpperInclusive(tiers, bid, i + 1)

get_increment_for_bid_UpperInclusive(current_bid) ==
    TierLoopUpperInclusive(bid_tiers, current_bid, 1)

get_increment_for_bid(current_bid) == TierLoop(bid_tiers, current_bid, 1)

get_minimum_bid(base_price, current_bid) ==
    IF current_bid = Null
    THEN base_price
    ELSE DecimalAdd(current_bid, get_increment_for_bid(current_bid))

----------------------------------------------------------------------------
(* Initial state: a draft auction with its teams and pool, manager loaded *)

NoCall ==
    [op |-> "none", ok |-> TRUE, reason |-> "", team_id |-> Null,
     amount |-> Null, next_minimum |-> Null]

\* A call's outcome: ok with its return value, or the error's message.
Result(op, ok, reason, next_minimum) ==
    [op |-> op, ok |-> ok, reason |-> reason, team_id |-> Null,
     amount |-> Null, next_minimum |-> next_minimum]

\* Outcome of place_bid(team_id, amount).
BidResult(ok, reason, team_id, amount, next_minimum) ==
    [op |-> "place_bid", ok |-> ok, reason |-> reason, team_id |-> team_id,
     amount |-> amount, next_minimum |-> next_minimum]

AuctionEvent ==
    [status |-> "draft", current_player_id |-> Null, current_bid |-> Null,
     current_bid_team_id |-> Null]

AuctionPlayer(p) ==
    [status |-> "available", base_price |-> PoolBasePrice[p],
     sold_for |-> Null, sold_to_team_id |-> Null]

Team ==
    [initial_purse |-> InitialPurse, purse_remaining |-> InitialPurse]

NoTierCall == [base_price |-> Null, current_bid |-> Null]

AuctionInit ==
    /\ auction = AuctionEvent
    /\ self_auction = auction
    /\ players = [p \in AuctionPlayerIds |-> AuctionPlayer(p)]
    /\ teams = [t \in TeamIds |-> Team]
    /\ bids = << >>
    /\ team_players = << >>
    /\ transfers = << >>
    /\ last = NoCall
    /\ tier_out = NoTierCall

\* The message slot of a handler that is not broadcasting
NoMessage == [type |-> "none"]

\* A websocket without a handler: not connected
NoHandler ==
    [pc |-> "closed", auction_id |-> Null, role |-> "none",
     team_id |-> Null, message |-> NoMessage,
     targets |-> {}, seen |-> {}, used |-> 0, failed |-> {},
     then |-> "done", orphaned |-> FALSE]

\* ConnectionManager.__init__: no connections, no managers
HubInit ==
    /\ connections = << >>
    /\ managers = {}
    /\ handler = [c \in Websockets |-> NoHandler]
    /\ received = [c \in Websockets |-> << >>]
    /\ peer_gone = {}
    /\ row_lock = Null
    /\ commits = 0
    /\ handled = 0

Init ==
    /\ AuctionInit
    /\ tier_in = NoTierCall
    /\ HubInit

----------------------------------------------------------------------------
(* Session: commit writes the instance's changed columns to the stored row, *)
(* refresh reloads the instance from the stored row                         *)

\* self.db.query(AuctionEvent)...with_for_update().first(): the session
\* already holds the loaded instance for this row and returns it.
locked_auction == self_auction

\* self.db.refresh(self.auction) after the commit of row value `stored`.
refresh(stored) == stored

----------------------------------------------------------------------------
(* HTTP status endpoints (routers/auctions.py), each in its own session *)

teams_count == Cardinality(TeamIds)

players_count == Cardinality(AuctionPlayerIds)

start_auction ==
    /\ IF auction.status # "draft"
       THEN /\ last' = Result("start_auction", FALSE,
                              "Auction is already started", Null)
            /\ UNCHANGED auction
       ELSE IF teams_count < 2
       THEN /\ last' = Result("start_auction", FALSE, "Need at least 2 teams", Null)
            /\ UNCHANGED auction
       ELSE IF players_count = 0
       THEN /\ last' = Result("start_auction", FALSE, "Need at least 1 player", Null)
            /\ UNCHANGED auction
       ELSE /\ auction' = [auction EXCEPT !.status = "live"]
            /\ last' = Result("start_auction", TRUE, "", Null)
    /\ UNCHANGED <<self_auction, players, teams, bids, team_players,
                   transfers, tier_in, tier_out>>

pause_auction ==
    /\ IF auction.status # "live"
       THEN /\ last' = Result("pause_auction", FALSE, "Auction is not live", Null)
            /\ UNCHANGED auction
       ELSE /\ auction' = [auction EXCEPT !.status = "paused"]
            /\ last' = Result("pause_auction", TRUE, "", Null)
    /\ UNCHANGED <<self_auction, players, teams, bids, team_players,
                   transfers, tier_in, tier_out>>

complete_auction ==
    /\ auction' = [auction EXCEPT !.status = "completed"]
    /\ last' = Result("complete_auction", TRUE, "", Null)
    /\ UNCHANGED <<self_auction, players, teams, bids, team_players,
                   transfers, tier_in, tier_out>>

----------------------------------------------------------------------------
(* AuctionManager.validate_bid: the advisory check, on self.auction *)

validate_bid_error_NoHighestBidder(team_id, amount) ==
    LET sa == self_auction IN
    IF sa.status # "live" THEN "Auction is not live"
    ELSE IF sa.current_player_id = Null
    THEN "No player is currently being auctioned"
    ELSE IF players[sa.current_player_id].status # "current"
    THEN "No active player auction"
    ELSE IF team_id \notin TeamIds THEN "Team not found in this auction"
    ELSE IF teams[team_id].purse_remaining < amount THEN "Insufficient purse"
    ELSE IF amount < get_minimum_bid(players[sa.current_player_id].base_price,
                                     sa.current_bid)
    THEN "Bid must be at least the minimum"
    ELSE ""

\* The checks of validate_bid in order; "" when it returns (True, "").
validate_bid_error(team_id, amount) ==
    LET sa == self_auction IN
    IF sa.status # "live" THEN "Auction is not live"
    ELSE IF sa.current_player_id = Null
    THEN "No player is currently being auctioned"
    ELSE IF players[sa.current_player_id].status # "current"
    THEN "No active player auction"
    ELSE IF team_id \notin TeamIds THEN "Team not found in this auction"
    ELSE IF teams[team_id].purse_remaining < amount THEN "Insufficient purse"
    ELSE IF amount < get_minimum_bid(players[sa.current_player_id].base_price,
                                     sa.current_bid)
    THEN "Bid must be at least the minimum"
    ELSE IF sa.current_bid_team_id = team_id
    THEN "You are already the highest bidder"
    ELSE ""

\* validate_bid returns (is_valid, error_message) and writes nothing.
validate_bid(team_id, amount) ==
    /\ last' = Result("validate_bid", validate_bid_error(team_id, amount) = "",
                      validate_bid_error(team_id, amount), Null)
    /\ UNCHANGED <<auction, self_auction, players, teams, bids, team_players,
                   transfers, tier_in, tier_out>>

----------------------------------------------------------------------------
(* AuctionManager.place_bid *)

place_bid_error_NoMinimum(team_id, amount) ==
    LET la == locked_auction IN
    IF la.status # "live" THEN "Auction is not live"
    ELSE IF la.current_player_id = Null
    THEN "No player is currently being auctioned"
    ELSE IF players[la.current_player_id].status # "current"
    THEN "No active player auction"
    ELSE IF team_id \notin TeamIds THEN "Team not found in this auction"
    ELSE IF teams[team_id].purse_remaining < amount THEN "Insufficient purse"
    ELSE IF la.current_bid_team_id = team_id
    THEN "You are already the highest bidder"
    ELSE ""

place_bid_error_NoPurse(team_id, amount) ==
    LET la == locked_auction IN
    IF la.status # "live" THEN "Auction is not live"
    ELSE IF la.current_player_id = Null
    THEN "No player is currently being auctioned"
    ELSE IF players[la.current_player_id].status # "current"
    THEN "No active player auction"
    ELSE IF team_id \notin TeamIds THEN "Team not found in this auction"
    ELSE IF amount < get_minimum_bid(players[la.current_player_id].base_price,
                                     la.current_bid)
    THEN "Bid must be at least the minimum"
    ELSE IF la.current_bid_team_id = team_id
    THEN "You are already the highest bidder"
    ELSE ""

\* The manager methods that read the auction row with_for_update()
acquires_row_lock(op) == op = "place_bid"

\* The checks of place_bid in order; "" when the bid passes all of them.
place_bid_error(team_id, amount) ==
    LET la == locked_auction IN
    IF la.status # "live" THEN "Auction is not live"
    ELSE IF la.current_player_id = Null
    THEN "No player is currently being auctioned"
    ELSE IF players[la.current_player_id].status # "current"
    THEN "No active player auction"
    ELSE IF team_id \notin TeamIds THEN "Team not found in this auction"
    ELSE IF teams[team_id].purse_remaining < amount THEN "Insufficient purse"
    ELSE IF amount < get_minimum_bid(players[la.current_player_id].base_price,
                                     la.current_bid)
    THEN "Bid must be at least the minimum"
    ELSE IF la.current_bid_team_id = team_id
    THEN "You are already the highest bidder"
    ELSE ""

AuctionBid(auction_player_id, team_id, bid_amount) ==
    [auction_player_id |-> auction_player_id, team_id |-> team_id,
     bid_amount |-> bid_amount, is_winning_bid |-> FALSE]

record_bid_AmountOnly(row, team_id, amount) ==
    [row EXCEPT !.current_bid = amount]

\* locked_auction.current_bid = amount; .current_bid_team_id = team_id
record_bid(row, team_id, amount) ==
    [row EXCEPT !.current_bid = amount, !.current_bid_team_id = team_id]

place_bid(team_id, amount) ==
    LET err == place_bid_error(team_id, amount)
        cp  == locked_auction.current_player_id
    IN
    /\ (err = "" => Len(bids) < MaxBids)
    /\ IF err # ""
       THEN /\ last' = BidResult(FALSE, err, team_id, amount, Null)
            /\ UNCHANGED <<auction, self_auction, bids>>
       ELSE /\ bids' = Append(bids, AuctionBid(cp, team_id, amount))
            /\ auction' = record_bid(auction, team_id, amount)
            /\ self_auction' = refresh(auction')
            /\ last' = BidResult(TRUE, "", team_id, amount,
                                 get_minimum_bid(players[cp].base_price,
                                                 amount))
    /\ UNCHANGED <<players, teams, team_players, transfers, tier_in, tier_out>>

----------------------------------------------------------------------------
(* AuctionManager.present_player *)

clear_previous_current_Skip(rows) == rows

\* UPDATE auction_players SET status = 'available' WHERE status = 'current'
clear_previous_current(rows) ==
    [q \in DOMAIN rows |->
        IF rows[q].status = "current"
        THEN [rows[q] EXCEPT !.status = "available"]
        ELSE rows[q]]

present_player_AnyStatus(auction_player_id) ==
    /\ IF auction_player_id \notin AuctionPlayerIds
       THEN /\ last' = Result("present_player", FALSE,
                              "Player not found in auction pool", Null)
            /\ UNCHANGED <<auction, self_auction, players>>
       ELSE /\ players' = [clear_previous_current(players)
                             EXCEPT ![auction_player_id].status = "current"]
            /\ auction' = [auction EXCEPT
                             !.current_player_id = auction_player_id,
                             !.current_bid = Null,
                             !.current_bid_team_id = Null]
            /\ self_auction' = refresh(auction')
            /\ last' = Result("present_player", TRUE, "", Null)
    /\ UNCHANGED <<teams, bids, team_players, transfers, tier_in, tier_out>>

present_player_KeepBid(auction_player_id) ==
    /\ IF auction_player_id \notin AuctionPlayerIds
       THEN /\ last' = Result("present_player", FALSE,
                              "Player not found in auction pool", Null)
            /\ UNCHANGED <<auction, self_auction, players>>
       ELSE IF players[auction_player_id].status # "available"
       THEN /\ last' = Result("present_player", FALSE, "Player is not available", Null)
            /\ UNCHANGED <<auction, self_auction, players>>
       ELSE /\ players' = [clear_previous_current(players)
                             EXCEPT ![auction_player_id].status = "current"]
            /\ auction' = [auction EXCEPT
                             !.current_player_id = auction_player_id]
            /\ self_auction' = refresh(auction')
            /\ last' = Result("present_player", TRUE, "", Null)
    /\ UNCHANGED <<teams, bids, team_players, transfers, tier_in, tier_out>>

present_player(auction_player_id) ==
    /\ IF auction_player_id \notin AuctionPlayerIds
       THEN /\ last' = Result("present_player", FALSE,
                              "Player not found in auction pool", Null)
            /\ UNCHANGED <<auction, self_auction, players>>
       ELSE IF players[auction_player_id].status # "available"
       THEN /\ last' = Result("present_player", FALSE, "Player is not available", Null)
            /\ UNCHANGED <<auction, self_auction, players>>
       ELSE /\ players' = [clear_previous_current(players)
                             EXCEPT ![auction_player_id].status = "current"]
            /\ auction' = [auction EXCEPT
                             !.current_player_id = auction_player_id,
                             !.current_bid = Null,
                             !.current_bid_team_id = Null]
            /\ self_auction' = refresh(auction')
            /\ last' = Result("present_player", TRUE, "", Null)
    /\ UNCHANGED <<teams, bids, team_players, transfers, tier_in, tier_out>>

----------------------------------------------------------------------------
(* AuctionManager.sell_player and unsold_player *)

debit_purse_Skip(rows, team_id, amount) == rows

debit_purse_AllTeams(rows, team_id, amount) ==
    [t \in DOMAIN rows |-> [rows[t] EXCEPT !.purse_remaining = @ - amount]]

\* team.purse_remaining -= self.auction.current_bid
debit_purse(rows, team_id, amount) ==
    [rows EXCEPT ![team_id].purse_remaining = @ - amount]

\* UPDATE auction_bids SET is_winning_bid = true WHERE player, team, amount
mark_winning_bid(rows, auction_player_id, team_id, amount) ==
    [i \in DOMAIN rows |->
        IF /\ rows[i].auction_player_id = auction_player_id
           /\ rows[i].team_id = team_id
           /\ rows[i].bid_amount = amount
        THEN [rows[i] EXCEPT !.is_winning_bid = TRUE]
        ELSE rows[i]]

TeamPlayer_DefaultPrice(team_id, auction_player_id, bought_for) ==
    [team_id |-> team_id, player |-> auction_player_id, bought_for |-> 0]

TeamPlayer(team_id, auction_player_id, bought_for) ==
    [team_id |-> team_id, player |-> auction_player_id,
     bought_for |-> bought_for]

PlayerTransfer(team_id, auction_player_id, transfer_amount) ==
    [to_team_id |-> team_id, player |-> auction_player_id,
     transfer_amount |-> transfer_amount]

clear_spotlight_KeepBid(row) == [row EXCEPT !.current_player_id = Null]

clear_spotlight_KeepPlayer(row) ==
    [row EXCEPT !.current_bid = Null, !.current_bid_team_id = Null]

\* self.auction.current_player_id = None; current_bid = None;
\* current_bid_team_id = None
clear_spotlight(row) ==
    [row EXCEPT !.current_player_id = Null, !.current_bid = Null,
                !.current_bid_team_id = Null]

sell_player_error_NoBidCheck ==
    IF self_auction.current_player_id = Null
    THEN "No player being auctioned"
    ELSE ""

\* The checks of sell_player in order; "" when the sale goes ahead.
sell_player_error ==
    IF self_auction.current_player_id = Null
    THEN "No player being auctioned"
    ELSE IF self_auction.current_bid_team_id = Null
    THEN "No bids placed, cannot sell"
    ELSE ""

sell_player ==
    LET p == self_auction.current_player_id
        t == self_auction.current_bid_team_id
        a == self_auction.current_bid
    IN
    /\ IF sell_player_error # ""
       THEN /\ last' = Result("sell_player", FALSE, sell_player_error, Null)
            /\ UNCHANGED <<auction, self_auction, players, teams, bids,
                           team_players, transfers>>
       ELSE /\ players' = [players EXCEPT ![p].status = "sold",
                                          ![p].sold_for = a,
                                          ![p].sold_to_team_id = t]
            /\ teams' = debit_purse(teams, t, a)
            /\ bids' = mark_winning_bid(bids, p, t, a)
            /\ team_players' = Append(team_players, TeamPlayer(t, p, a))
            /\ transfers' = Append(transfers, PlayerTransfer(t, p, a))
            /\ auction' = clear_spotlight(auction)
            /\ self_auction' = refresh(auction')
            /\ last' = Result("sell_player", TRUE, "", Null)
    /\ UNCHANGED <<tier_in, tier_out>>

unsold_player ==
    LET p == self_auction.current_player_id IN
    /\ IF p = Null
       THEN /\ last' = Result("unsold_player", FALSE, "No player being auctioned", Null)
            /\ UNCHANGED <<auction, self_auction, players>>
       ELSE /\ players' = [players EXCEPT ![p].status = "unsold"]
            /\ auction' = clear_spotlight(auction)
            /\ self_auction' = refresh(auction')
            /\ last' = Result("unsold_player", TRUE, "", Null)
    /\ UNCHANGED <<teams, bids, team_players, transfers, tier_in, tier_out>>

----------------------------------------------------------------------------
(* AuctionManager.get_state: refreshes the manager's instance, reads only *)

\* PlayerState of the spotlight; all fields None when no player is current.
PlayerState(id, current_bid, current_bidder_id) ==
    [id |-> id, current_bid |-> current_bid,
     current_bidder_id |-> current_bidder_id]

NoPlayerState == PlayerState(Null, Null, Null)

\* COUNT(*) of the auction's players with the given status
players_with_status(prows, status) ==
    Cardinality({q \in DOMAIN prows : prows[q].status = status})

\* TeamState: purse and the number of roster rows of the team
TeamState(trows, tprows, t) ==
    [purse |-> trows[t].purse_remaining,
     players_count |->
         Cardinality({i \in DOMAIN tprows : tprows[i].team_id = t})]

\* The AuctionState that get_state returns, from the refreshed auction row
\* and the stored player, team and roster rows.
AuctionState(row, prows, trows, tprows) ==
    [status |-> row.status,
     current_player |->
         IF row.current_player_id # Null
            /\ row.current_player_id \in DOMAIN prows
         THEN PlayerState(row.current_player_id, row.current_bid,
                          row.current_bid_team_id)
         ELSE NoPlayerState,
     teams |-> [t \in DOMAIN trows |-> TeamState(trows, tprows, t)],
     available_players |-> players_with_status(prows, "available"),
     sold_players |-> players_with_status(prows, "sold"),
     unsold_players |-> players_with_status(prows, "unsold")]

\* What a get_state() call returns in the present state.
get_state_result ==
    AuctionState(refresh(auction), players, teams, team_players)

get_state ==
    /\ self_auction' = refresh(auction)
    /\ last' = Result("get_state", TRUE, "", Null)
    /\ UNCHANGED <<auction, players, teams, bids, team_players, transfers,
                   tier_in, tier_out>>

----------------------------------------------------------------------------
(* The auction: admin and bidder calls in any order *)

Next ==
    \/ start_auction /\ UNCHANGED hub_vars
    \/ pause_auction /\ UNCHANGED hub_vars
    \/ complete_auction /\ UNCHANGED hub_vars
    \/ \E p \in PlayerIdInputs : present_player(p) /\ UNCHANGED hub_vars
    \/ \E t \in TeamIdInputs, a \in BidAmounts :
          validate_bid(t, a) /\ UNCHANGED hub_vars
    \/ \E t \in TeamIdInputs, a \in BidAmounts :
          place_bid(t, a) /\ UNCHANGED hub_vars
    \/ sell_player /\ UNCHANGED hub_vars
    \/ unsold_player /\ UNCHANGED hub_vars
    \/ get_state /\ UNCHANGED hub_vars

Spec == Init /\ [][Next]_vars

----------------------------------------------------------------------------
(* The tier table as a function: one get_minimum_bid call per behaviour *)

TierBids == (0 .. TierMaxBid) \cup {Null, Infinity}

TierInit ==
    /\ AuctionInit
    /\ HubInit
    /\ tier_in \in [base_price : TierBasePrices, current_bid : TierBids]

call_get_minimum_bid ==
    /\ tier_out = NoTierCall
    /\ tier_out' = [base_price |-> tier_in.base_price,
                    current_bid |-> tier_in.current_bid,
                    increment |->
                        IF tier_in.current_bid = Null THEN Null
                        ELSE get_increment_for_bid(tier_in.current_bid),
                    minimum |-> get_minimum_bid(tier_in.base_price,
                                                tier_in.current_bid)]
    /\ UNCHANGED <<auction, self_auction, players, teams, bids, team_players,
                   transfers, last, tier_in>>
    /\ UNCHANGED hub_vars

TierNext == call_get_minimum_bid

TierSpec == TierInit /\ [][TierNext]_vars

----------------------------------------------------------------------------
(* Connection hub: ConnectionManager and the websocket handlers *)

auction_vars == <<auction, self_auction, players, teams, bids, team_players,
                  transfers, last, tier_in, tier_out>>

\* What auction_websocket establishes before it calls connect: the
\* auction, and get_user_role and the owned team of the authenticated
\* user.  The users of the model: the admin of the auction, the owner of
\* team 1, a user with access to the auction who owns no team, and such a
\* user of the other auction.
Connection(auction_id, role, team_id) ==
    [auction_id |-> auction_id, role |-> role, team_id |-> team_id]

Connections ==
    {Connection(AuctionId, "admin", Null),
     Connection(AuctionId, "team_owner", 1),
     Connection(AuctionId, "spectator", Null),
     Connection(2, "spectator", Null)}

\* Bid amounts of inbound bid:place messages
MessageAmounts == {95, 100}

ConnectedMessage(auction_id, role, team_id) ==
    [type |-> "connected", auction_id |-> auction_id, role |-> role,
     team_id |-> team_id]

\* code=None of an ErrorMessage
NoCode == ""

\* ErrorMessage(message=..., code=...); the text is left out
ErrorMessage(code) == [type |-> "error", code |-> code]

\* StateUpdateMessage(data=state).  cause is not part of the message: it
\* is the number of the commit whose handler broadcasts it, Null for a
\* snapshot that no mutation triggered.
StateUpdateMessage(data, cause) ==
    [type |-> "state:update", data |-> data, cause |-> cause]

BidNewMessage(player_id, team_id, amount, next_minimum, cause) ==
    [type |-> "bid:new", player_id |-> player_id, team_id |-> team_id,
     amount |-> amount, next_minimum |-> next_minimum, cause |-> cause]

PlayerSoldMessage(player_id, team_id, sold_for, cause) ==
    [type |-> "player:sold", player_id |-> player_id, team_id |-> team_id,
     sold_for |-> sold_for, cause |-> cause]

\* get_state() of the manager of the other auction: a draft auction that
\* has no teams and no players yet
OtherAuctionState == AuctionState(AuctionEvent, << >>, << >>, << >>)

\* The handler h waiting in receive_json
Idle(h) ==
    [NoHandler EXCEPT !.pc = "idle", !.auction_id = h.auction_id,
                      !.role = h.role, !.team_id = h.team_id]

\* websocket.send_json(message) on websocket x: delivered unless the client
\* has gone away, in which case the send raises
send_json(recv, x, message) ==
    IF x \in peer_gone THEN recv ELSE [recv EXCEPT ![x] = Append(@, message)]

\* ConnectionManager.disconnect, on the connections dict
disconnect_connections(cs, a, c) ==
    IF a \notin DOMAIN cs THEN cs
    ELSE IF cs[a] \ {c} = {}
    THEN [b \in DOMAIN cs \ {a} |-> cs[b]]
    ELSE [cs EXCEPT ![a] = @ \ {c}]

\* ConnectionManager.disconnect, on the managers dict
disconnect_managers(cs, mgrs, a, c) ==
    IF a \in DOMAIN cs /\ cs[a] \ {c} = {} THEN mgrs \ {a} ELSE mgrs

\* The finally clause of auction_websocket: the handler of c ends, whether
\* by WebSocketDisconnect or by any other exception.  A broadcast loop of
\* another handler over a set that disconnect removes from the dict keeps
\* iterating that removed, now empty, set.  The websocket object of c is
\* not used again: a client that reconnects gets a new websocket.
end_handler(c, cs, mgrs, recv) ==
    LET a == handler[c].auction_id
        removed == a \in DOMAIN cs /\ cs[a] \ {c} = {}
    IN
    /\ connections' = disconnect_connections(cs, a, c)
    /\ managers' = disconnect_managers(cs, mgrs, a, c)
    /\ handler' = [w \in Websockets |->
                     IF w = c THEN [NoHandler EXCEPT !.pc = "ended"]
                     ELSE IF /\ removed
                             /\ handler[w].pc = "broadcast"
                             /\ handler[w].auction_id = a
                     THEN [handler[w] EXCEPT !.orphaned = TRUE]
                     ELSE handler[w]]
    /\ received' = recv
    /\ peer_gone' = peer_gone \ {c}

\* The handler of c returns to receive_json.
back_to_receive(c, cs, mgrs, recv) ==
    /\ connections' = cs
    /\ managers' = mgrs
    /\ handler' = [handler EXCEPT ![c] = Idle(handler[c])]
    /\ received' = recv
    /\ UNCHANGED peer_gone

\* The websocket that a loop over the set visits first.  A set is iterated
\* in the order of its hash table, the same for every loop over the same
\* set; the websockets are numbered in that order.
first_of(set) == CHOOSE x \in set : \A y \in set : x <= y

\* The loop of ConnectionManager.broadcast up to its first send: the
\* handler of c suspends in send_json to the first websocket x of the set.
first_send(c, a, message, then, cs, mgrs, recv) ==
    LET x == first_of(cs[a]) IN
        /\ connections' = cs
        /\ managers' = mgrs
        /\ received' = send_json(recv, x, message)
        /\ handler' = [handler EXCEPT ![c] =
                         [pc |-> "broadcast", auction_id |-> a,
                          role |-> handler[c].role,
                          team_id |-> handler[c].team_id,
                          message |-> message, targets |-> cs[a],
                          seen |-> {x}, used |-> Cardinality(cs[a]),
                          failed |-> {x} \cap peer_gone, then |-> then,
                          orphaned |-> FALSE]]
        /\ UNCHANGED peer_gone

\* The snapshot that get_state() of auction a returns at the end of the
\* step, the rows of the step's commit included.
state_data(a) ==
    IF a = AuctionId
    THEN AuctionState(refresh(auction'), players', teams', team_players')
    ELSE OtherAuctionState

\* ConnectionManager.broadcast_state called by the handler of c, with
\* get_manager creating the manager when there is none
broadcast_state(c, a, cause, cs, mgrs, recv) ==
    IF a \notin DOMAIN cs \/ cs[a] = {}
    THEN back_to_receive(c, cs, mgrs \cup {a}, recv)
    ELSE first_send(c, a, StateUpdateMessage(state_data(a), cause), "done",
                    cs, mgrs \cup {a}, recv)

\* ConnectionManager.broadcast of an event message called by the handler
\* of c, followed by broadcast_state
broadcast(c, a, message, cs, mgrs, recv) ==
    IF a \notin DOMAIN cs \/ cs[a] = {}
    THEN broadcast_state(c, a, message.cause, cs, mgrs, recv)
    ELSE first_send(c, a, message, "state", cs, mgrs, recv)

\* ConnectionManager.connect up to its first send: the websocket is
\* registered and sent the connected message.
connect(c, a, role, team_id) ==
    /\ handler[c].pc = "closed"
    /\ connections' =
           [b \in DOMAIN connections \cup {a} |->
               IF b = a
               THEN (IF a \in DOMAIN connections THEN connections[a] ELSE {})
                        \cup {c}
               ELSE connections[b]]
    /\ received' = [received EXCEPT
                       ![c] = << ConnectedMessage(a, role, team_id) >>]
    /\ handler' = [handler EXCEPT
                      ![c] = [NoHandler EXCEPT !.pc = "connected",
                                               !.auction_id = a,
                                               !.role = role,
                                               !.team_id = team_id]]
    /\ UNCHANGED <<managers, peer_gone, row_lock, commits, handled>>
    /\ UNCHANGED auction_vars

\* ConnectionManager.send_state to websocket c: the manager is created when
\* there is none, get_state() is sent to c alone; a send to a client that
\* has gone away raises and ends the handler.
send_state(c, a) ==
    /\ IF a = AuctionId THEN get_state ELSE UNCHANGED auction_vars
    /\ IF c \in peer_gone
       THEN end_handler(c, connections, managers \cup {a}, received)
       ELSE back_to_receive(c, connections, managers \cup {a},
                send_json(received, c,
                          StateUpdateMessage(state_data(a), Null)))
    /\ UNCHANGED <<row_lock, commits>>

\* The second half of connect: the snapshot for the new websocket.
connect_send_state(c) ==
    /\ handler[c].pc = "connected"
    /\ send_state(c, handler[c].auction_id)
    /\ UNCHANGED handled

\* The client of c goes away; the hub learns of it at its next send to c
\* or receive from c.
client_gone(c) ==
    /\ handler[c].pc \notin {"closed", "ended"}
    /\ c \notin peer_gone
    /\ peer_gone' = peer_gone \cup {c}
    /\ UNCHANGED <<connections, managers, handler, received, row_lock,
                   commits, handled>>
    /\ UNCHANGED auction_vars

\* receive_json raises WebSocketDisconnect: the handler ends.
receive_disconnect(c) ==
    /\ handler[c].pc = "idle"
    /\ c \in peer_gone
    /\ end_handler(c, connections, managers, received)
    /\ UNCHANGED <<row_lock, commits, handled>>
    /\ UNCHANGED auction_vars

\* The handler of c resumes in the loop of broadcast after a send.  The set
\* iterator raises RuntimeError when the size of the set has changed since
\* the loop began; nothing in handle_message or auction_websocket handles
\* it short of the finally clause.  When the size is the same, every
\* websocket that was in the set when the loop began and is still in it
\* is visited; one that was added since may be visited or missed.  After
\* the loop the failed websockets are discarded and the handler goes on to
\* broadcast_state or back to receive_json.
broadcast_next(c) ==
    LET h == handler[c]
        a == h.auction_id
        changed == \/ h.orphaned
                   \/ a \notin DOMAIN connections
                   \/ Cardinality(connections[a]) # h.used
    IN
    /\ h.pc = "broadcast"
    /\ UNCHANGED <<row_lock, commits, handled>>
    /\ IF changed
       THEN /\ end_handler(c, connections, managers, received)
            /\ UNCHANGED auction_vars
       ELSE \/ \E x \in {y \in connections[a] \ h.seen :
                              y = first_of(connections[a] \ h.seen)} :
                 /\ received' = send_json(received, x, h.message)
                 /\ handler' = [handler EXCEPT
                                  ![c].seen = @ \cup {x},
                                  ![c].failed = @ \cup ({x} \cap peer_gone)]
                 /\ UNCHANGED <<connections, managers, peer_gone>>
                 /\ UNCHANGED auction_vars
            \/ /\ (connections[a] \ h.seen) \cap h.targets = {}
               /\ LET cs == [connections EXCEPT ![a] = @ \ h.failed] IN
                  IF h.then = "state"
                  THEN /\ IF a = AuctionId THEN get_state
                                           ELSE UNCHANGED auction_vars
                       /\ broadcast_state(c, a, h.message.cause, cs,
                                          managers, received)
                  ELSE /\ UNCHANGED auction_vars
                       /\ back_to_receive(c, cs, managers, received)

\* Inbound messages: data.get("type"), data.get("auction_player_id"),
\* data.get("team_id"), data.get("amount"); Null is a key that is missing
\* or whose value is falsy.
admin_actions ==
    {"auction:start", "auction:pause", "auction:resume",
     "player:present", "player:sell", "player:unsold"}

Data(type, auction_player_id, team_id, amount) ==
    [type |-> type, auction_player_id |-> auction_player_id,
     team_id |-> team_id, amount |-> amount]

InboundMessages ==
    {Data("player:present", p, Null, Null) : p \in PlayerIdInputs \cup {Null}}
    \cup {Data(t, Null, Null, Null) :
            t \in {"player:sell", "player:unsold", "auction:start",
                   "auction:pause", "auction:resume", "state:request",
                   "chat:send", "none"}}
    \cup {Data("bid:place", Null, t, a) :
            t \in TeamIds \cup {Null}, a \in MessageAmounts \cup {Null}}

reply_error_ToAll(c, mgrs, code) ==
    back_to_receive(c, connections, mgrs,
        [x \in Websockets |->
            IF handler[c].auction_id \in DOMAIN connections
               /\ x \in connections[handler[c].auction_id]
            THEN Append(received[x], ErrorMessage(code))
            ELSE received[x]])

\* An error reply to the sender alone; the handler returns to receive_json.
reply_error(c, mgrs, code) ==
    back_to_receive(c, connections, mgrs,
                    send_json(received, c, ErrorMessage(code)))

\* One inbound message on websocket c, from receive_json up to the
\* handler's next send.
handle_message(c, data) ==
    LET a == handler[c].auction_id
        mgrs == managers \cup {a}
        role == handler[c].role
        team_id == handler[c].team_id
        bid_team_id == IF data.team_id # Null THEN data.team_id ELSE team_id
        cause == commits + 1
    IN
    /\ handler[c].pc = "idle"
    /\ c \notin peer_gone
    /\ handled < MaxHandled
    /\ handled' = handled + 1
    /\ IF data.type = "none"
       THEN /\ reply_error(c, managers, NoCode)
            /\ UNCHANGED <<row_lock, commits>>
            /\ UNCHANGED auction_vars
       ELSE IF data.type \in admin_actions
       THEN IF role # "admin"
            THEN /\ reply_error(c, mgrs, "forbidden")
                 /\ UNCHANGED <<row_lock, commits>>
                 /\ UNCHANGED auction_vars
            ELSE IF data.type = "player:present"
            THEN IF data.auction_player_id = Null
                 THEN /\ reply_error(c, mgrs, NoCode)
                      /\ UNCHANGED <<row_lock, commits>>
                      /\ UNCHANGED auction_vars
                 ELSE /\ present_player(data.auction_player_id)
                      /\ IF last'.ok
                         THEN /\ row_lock' = Null
                              /\ commits' = cause
                              /\ broadcast_state(c, a, cause, connections,
                                                 mgrs, received)
                         ELSE /\ reply_error(c, mgrs, NoCode)
                              /\ UNCHANGED <<row_lock, commits>>
            ELSE IF data.type = "player:sell"
            THEN /\ sell_player
                 /\ IF last'.ok
                    THEN /\ row_lock' = Null
                         /\ commits' = cause
                         /\ broadcast(c, a,
                                PlayerSoldMessage(
                                    self_auction.current_player_id,
                                    self_auction.current_bid_team_id,
                                    self_auction.current_bid, cause),
                                connections, mgrs, received)
                    ELSE /\ reply_error(c, mgrs, NoCode)
                         /\ UNCHANGED <<row_lock, commits>>
            ELSE IF data.type = "player:unsold"
            THEN /\ unsold_player
                 /\ IF last'.ok
                    THEN /\ row_lock' = Null
                         /\ commits' = cause
                         /\ broadcast_state(c, a, cause, connections, mgrs,
                                            received)
                    ELSE /\ reply_error(c, mgrs, NoCode)
                         /\ UNCHANGED <<row_lock, commits>>
            ELSE /\ get_state
                 /\ broadcast_state(c, a, Null, connections, mgrs, received)
                 /\ UNCHANGED <<row_lock, commits>>
       ELSE IF data.type = "bid:place"
       THEN IF role \notin {"admin", "team_owner"}
            THEN /\ reply_error(c, mgrs, "forbidden")
                 /\ UNCHANGED <<row_lock, commits>>
                 /\ UNCHANGED auction_vars
            ELSE IF bid_team_id = Null \/ data.amount = Null
            THEN /\ reply_error(c, mgrs, NoCode)
                 /\ UNCHANGED <<row_lock, commits>>
                 /\ UNCHANGED auction_vars
            ELSE IF role = "team_owner" /\ bid_team_id # team_id
            THEN /\ reply_error(c, mgrs, "forbidden")
                 /\ UNCHANGED <<row_lock, commits>>
                 /\ UNCHANGED auction_vars
            ELSE /\ place_bid(bid_team_id, data.amount)
                 /\ IF last'.ok
                    THEN /\ row_lock' = Null
                         /\ commits' = cause
                         /\ broadcast(c, a,
                                BidNewMessage(
                                    locked_auction.current_player_id,
                                    bid_team_id, data.amount,
                                    last'.next_minimum, cause),
                                connections, mgrs, received)
                    ELSE /\ row_lock' = c
                         /\ UNCHANGED commits
                         /\ reply_error(c, mgrs, NoCode)
       ELSE IF data.type = "state:request"
       THEN send_state(c, a)
       ELSE /\ reply_error(c, mgrs, NoCode)
            /\ UNCHANGED <<row_lock, commits>>
            /\ UNCHANGED auction_vars

\* The hub of a process that has just started: nobody has connected yet.
\* The stored auction has been started and player 1 is up for bidding, as
\* start_auction and present_player(1) left it before the process started;
\* it is live, or paused by pause_auction since.
LiveInit ==
    /\ \E status \in {"live", "paused"} :
          auction = [AuctionEvent EXCEPT !.status = status,
                                        !.current_player_id = 1]
    /\ self_auction = auction
    /\ players = [p \in AuctionPlayerIds |->
                    IF p = 1 THEN [AuctionPlayer(p) EXCEPT !.status = "current"]
                             ELSE AuctionPlayer(p)]
    /\ teams = [t \in TeamIds |-> Team]
    /\ bids = << >>
    /\ team_players = << >>
    /\ transfers = << >>
    /\ last = NoCall
    /\ tier_in = NoTierCall
    /\ tier_out = NoTierCall
    /\ HubInit

\* The hub and the live auction behind it
HubNext ==
    \/ \E c \in Websockets, k \in Connections :
          connect(c, k.auction_id, k.role, k.team_id)
    \/ \E c \in Websockets : connect_send_state(c)
    \/ \E c \in Websockets, data \in InboundMessages : handle_message(c, data)
    \/ \E c \in Websockets : broadcast_next(c)
    \/ \E c \in Websockets : client_gone(c)
    \/ \E c \in Websockets : receive_disconnect(c)

HubSpec == LiveInit /\ [][HubNext]_vars

----------------------------------------------------------------------------
(* Properties *)

Last(q) == q[Len(q)]

\* The step is an accepted place_bid call.
BidAccepted == last'.op = "place_bid" /\ last'.ok /\ Len(bids') = Len(bids) + 1

\* C1: concurrent place_bid calls are linearized: every accepted bid is on
\* the stored current player, reaches the minimum computed from the stored
\* current_bid at the moment it commits and comes from a team other than
\* the stored highest bidder; once a bid of some amount is accepted, no
\* bid of the same amount by any team is accepted after it.
C1_BidsLinearized ==
    [][BidAccepted =>
         LET b  == Last(bids')
             cp == auction.current_player_id
         IN /\ cp # Null
            /\ b.auction_player_id = cp
            /\ b.bid_amount >= get_minimum_bid(players[cp].base_price,
                                               auction.current_bid)
            /\ b.team_id # auction.current_bid_team_id
            /\ auction'.current_bid = b.bid_amount
            /\ auction'.current_bid_team_id = b.team_id
            /\ \A t \in TeamIdInputs, a \in BidAmounts :
                   a = b.bid_amount => (place_bid_error(t, a))' # ""]_vars

\* Two teams bid the same amount: the first was accepted, the second is
\* rejected as below the minimum.
C1_Witness ==
    /\ last.op = "place_bid" /\ ~last.ok
    /\ last.reason = "Bid must be at least the minimum"
    /\ last.team_id \in TeamIds
    /\ auction.current_bid = last.amount
    /\ auction.current_bid_team_id \in TeamIds \ {last.team_id}

WinningBids(p) ==
    {i \in DOMAIN bids : bids[i].auction_player_id = p /\ bids[i].is_winning_bid}

BidsOn(p) == {i \in DOMAIN bids : bids[i].auction_player_id = p}

\* C3: a sold player has exactly one winning bid row, its last bid row,
\* with amount sold_for and team sold_to_team; a player that is not sold
\* has none.
C3_OneWinningBid ==
    \A p \in AuctionPlayerIds :
        IF players[p].status = "sold"
        THEN /\ Cardinality(WinningBids(p)) = 1
             /\ \A i \in WinningBids(p) :
                    /\ bids[i].bid_amount = players[p].sold_for
                    /\ bids[i].team_id = players[p].sold_to_team_id
                    /\ \A j \in BidsOn(p) : j <= i
        ELSE WinningBids(p) = {}

CurrentPlayers == {p \in AuctionPlayerIds : players[p].status = "current"}

C5_AllOrNone ==
    \/ /\ auction.current_player_id = Null
       /\ auction.current_bid = Null
       /\ auction.current_bid_team_id = Null
    \/ /\ auction.current_player_id # Null
       /\ auction.current_bid # Null
       /\ auction.current_bid_team_id # Null

\* C5 (amended): current_bid and current_bid_team_id are null together or
\* set together, and they are set only while current_player_id is set; a
\* presented player without a bid has current_player_id set alone.
C5_BidAndBidderTogether ==
    /\ auction.current_bid = Null <=> auction.current_bid_team_id = Null
    /\ auction.current_bid # Null => auction.current_player_id # Null

\* A player with a bid was marked unsold, which cleared all three fields.
C5_Witness ==
    /\ last.op = "unsold_player" /\ last.ok
    /\ bids # << >>
    /\ players[Last(bids).auction_player_id].status = "unsold"
    /\ auction.current_player_id = Null

\* C6: a bid is accepted only while the stored status is live.
C6_BidOnlyWhileLive ==
    (last.op = "place_bid" /\ last.ok) => auction.status = "live"

\* The six rules of place_bid, read on the stored rows.
BidRuleViolated(team_id, amount) ==
    \/ auction.status # "live"
    \/ auction.current_player_id = Null
    \/ team_id \notin TeamIds
    \/ teams[team_id].purse_remaining < amount
    \/ amount < get_minimum_bid(players[auction.current_player_id].base_price,
                                auction.current_bid)
    \/ team_id = auction.current_bid_team_id

\* C7: a place_bid that violates one of the six rules fails with a reason
\* and changes no stored row.
C7_InvalidBidRejected ==
    [][(last'.op = "place_bid" /\ BidRuleViolated(last'.team_id, last'.amount))
         => /\ ~last'.ok
            /\ last'.reason # ""
            /\ UNCHANGED <<auction, players, teams, bids, team_players,
                           transfers>>]_vars

ProbeAmounts == 0 .. InitialPurse

\* C8: an accepted place_bid(team_id, amount) appends exactly one bid row
\* (current player, team_id, amount, not winning), sets current_bid and
\* current_bid_team_id, leaves current_player_id and all player rows alone
\* and returns next_minimum = get_minimum_bid(base_price, amount); a bid of
\* another team that follows is refused below next_minimum and, with the
\* purse for it and the auction seen live, accepted from next_minimum on.
C8_AcceptedBidEffect ==
    [][(last'.op = "place_bid" /\ last'.ok) =>
         LET cp == auction.current_player_id IN
         /\ bids' = Append(bids, [auction_player_id |-> cp,
                                  team_id |-> last'.team_id,
                                  bid_amount |-> last'.amount,
                                  is_winning_bid |-> FALSE])
         /\ auction'.current_bid = last'.amount
         /\ auction'.current_bid_team_id = last'.team_id
         /\ auction'.current_player_id = cp
         /\ auction'.status = auction.status
         /\ UNCHANGED <<players, teams, team_players, transfers>>
         /\ \A a \in BidAmounts : a = last'.amount =>
                last'.next_minimum = get_minimum_bid(players[cp].base_price, a)
         /\ \A t \in TeamIds, x \in ProbeAmounts :
                t # auction'.current_bid_team_id =>
                  /\ x < last'.next_minimum => (place_bid_error(t, x))' # ""
                  /\ (/\ x >= last'.next_minimum
                      /\ teams[t].purse_remaining >= x
                      /\ self_auction'.status = "live")
                       => (place_bid_error(t, x))' = ""]_vars

\* A second team has outbid the first on the current player.
C8_Witness ==
    /\ last.op = "place_bid" /\ last.ok
    /\ Len(bids) = 2
    /\ bids[1].auction_player_id = bids[2].auction_player_id
    /\ bids[1].team_id # bids[2].team_id
    /\ last.next_minimum = 110

TierIncrement(a) ==
    IF a < 100 THEN 5 ELSE IF a < 200 THEN 10 ELSE IF a < 500 THEN 20 ELSE 25

\* C9: with the default tiers, get_minimum_bid(base, None) = base and
\* get_minimum_bid(base, a) = a + inc(a) for a >= 0, where inc is 0.05 on
\* [0,1), 0.10 on [1,2), 0.20 on [2,5) and 0.25 from 5 on, also above
\* every finite range.
C9_TierIncrements ==
    tier_out # NoTierCall =>
        IF tier_out.current_bid = Null
        THEN tier_out.minimum = tier_out.base_price
        ELSE /\ tier_out.increment = TierIncrement(tier_out.current_bid)
             /\ tier_out.current_bid # Infinity =>
                    tier_out.minimum =
                        tier_out.current_bid + TierIncrement(tier_out.current_bid)

\* The call was made on a tier boundary.
C9_Witness ==
    /\ tier_out # NoTierCall
    /\ tier_out.current_bid \in {100, 200, 500}

RECURSIVE SpentOn(_, _)
SpentOn(S, t) ==
    IF S = {} THEN 0
    ELSE LET p == CHOOSE x \in S : TRUE IN
         (IF players[p].status = "sold" /\ players[p].sold_to_team_id = t
          THEN players[p].sold_for ELSE 0) + SpentOn(S \ {p}, t)

RosterRows(p) == {i \in DOMAIN team_players : team_players[i].player = p}

TransferRows(p) == {i \in DOMAIN transfers : transfers[i].player = p}

\* Every purse is debited by exactly the prices of the players sold to the
\* team, and exactly the sold players have a roster and a transfer row.
Settled ==
    /\ \A t \in TeamIds :
           teams[t].initial_purse - teams[t].purse_remaining
               = SpentOn(AuctionPlayerIds, t)
    /\ \A p \in AuctionPlayerIds :
           IF players[p].status = "sold"
           THEN /\ Cardinality(RosterRows(p)) = 1
                /\ Cardinality(TransferRows(p)) = 1
                /\ auction.current_player_id # p
           ELSE /\ RosterRows(p) = {}
                /\ TransferRows(p) = {}
                /\ players[p].sold_for = Null
                /\ players[p].sold_to_team_id = Null

\* The step is a successful sell_player call, with all of its effects.
SaleEffect ==
    LET p == auction.current_player_id
        t == auction.current_bid_team_id
        a == auction.current_bid
    IN
    /\ p # Null /\ t # Null
    /\ players' = [players EXCEPT ![p] = [@ EXCEPT !.status = "sold",
                                                   !.sold_for = a,
                                                   !.sold_to_team_id = t]]
    /\ teams' = [teams EXCEPT ![t].purse_remaining = @ - a]
    /\ Len(bids') = Len(bids)
    /\ \E i \in DOMAIN bids :
          /\ bids[i].auction_player_id = p
          /\ bids[i].team_id = t
          /\ bids[i].bid_amount = a
          /\ \A j \in DOMAIN bids : bids[j].auction_player_id = p => j <= i
          /\ bids'[i].is_winning_bid
    /\ team_players' = Append(team_players,
                              [team_id |-> t, player |-> p, bought_for |-> a])
    /\ transfers' = Append(transfers,
                           [to_team_id |-> t, player |-> p,
                            transfer_amount |-> a])
    /\ auction'.current_player_id = Null
    /\ auction'.current_bid = Null
    /\ auction'.current_bid_team_id = Null

StoredRows == <<auction, players, teams, bids, team_players, transfers>>

\* C11: sell_player fails when no player is current or when the current
\* player has no bid (current_bid_team_id null), and the failure leaves
\* the player current, every purse, the bid log and the spotlight as they
\* were.
C11_SellNeedsBid ==
    [][(/\ last'.op = "sell_player"
        /\ \/ auction.current_player_id = Null
           \/ auction.current_bid_team_id = Null)
         => /\ ~last'.ok
            /\ last'.reason \in {"No player being auctioned",
                                 "No bids placed, cannot sell"}
            /\ UNCHANGED StoredRows
            /\ \A p \in AuctionPlayerIds :
                   players[p].status = "current" =>
                       players'[p].status = "current"]_vars

\* sell_player was refused on a presented player that nobody has bid on.
C11_Witness ==
    /\ last.op = "sell_player" /\ ~last.ok
    /\ last.reason = "No bids placed, cannot sell"
    /\ auction.current_player_id \in AuctionPlayerIds
    /\ players[auction.current_player_id].status = "current"
    /\ auction.current_bid_team_id = Null

Spotlight ==
    <<auction.status, auction.current_player_id, auction.current_bid,
      auction.current_bid_team_id>>

\* C14: every write to the auction's status or spotlight fields by
\* place_bid, present_player, sell_player or unsold_player is made while
\* the writing session holds the exclusive row lock on the AuctionEvent:
\* the method takes the lock itself or the session already holds it.
C14_WritesUnderLock ==
    [][Spotlight' # Spotlight =>
         \/ acquires_row_lock(last'.op)
         \/ row_lock # Null]_vars

\* The handler of websocket c runs in this step.
Runs(c) ==
    \/ \E data \in InboundMessages : handle_message(c, data)
    \/ broadcast_next(c)
    \/ connect_send_state(c)

\* C15: whenever a handler sends a message to a websocket (a broadcast or
\* an error reply), that handler does not hold the auction row lock; this
\* covers place_bid taking the lock and then rejecting the bid.
C15_NoLockWhileSending ==
    [][\A c \in Websockets :
         (Runs(c) /\ received' # received) => row_lock' # c]_vars

\* The commit that triggered a broadcast message; Null for other messages
Cause(m) ==
    IF m.type \in {"bid:new", "player:sold", "state:update"}
    THEN m.cause ELSE Null

\* C16: every websocket receives the broadcasts of the auction in the
\* commit order of the mutations that triggered them: a broadcast of a
\* later commit never precedes a broadcast of an earlier one.
C16_BroadcastOrder ==
    \A c \in Websockets :
        \A i, j \in DOMAIN received[c] :
            (i < j /\ Cause(received[c][i]) # Null
                   /\ Cause(received[c][j]) # Null)
                => Cause(received[c][i]) <= Cause(received[c][j])

\* Message m is in the sequence of messages delivered to websocket x.
Delivered(recv, x, m) == \E i \in DOMAIN recv[x] : recv[x][i] = m

\* The broadcast loop of the handler of c ends in this step.
LoopOver(c) ==
    /\ handler[c].pc = "broadcast"
    /\ \/ handler'[c].pc # "broadcast"
       \/ handler'[c].then # handler[c].then

\* C17: when a broadcast to auction a ends, every websocket that was
\* registered for a when it began has been sent the message, or the send
\* to it failed and it is no longer registered; websockets of other
\* auctions have received nothing and are still registered.
C17_BroadcastReachesAll ==
    [][\A c \in Websockets : LoopOver(c) =>
         LET h == handler[c]
             a == h.auction_id
         IN /\ \A x \in h.targets :
                   \/ Delivered(received', x, h.message)
                   \/ /\ x \in h.failed
                      /\ a \in DOMAIN connections' => x \notin connections'[a]
            /\ \A b \in DOMAIN connections \ {a} :
                   \A y \in connections[b] \ h.targets :
                       /\ ~Delivered(received', y, h.message)
                       /\ b \in DOMAIN connections'
                       /\ y \in connections'[b]]_vars

\* Websocket c is registered for its auction.
Registered(cs, c) ==
    \E a \in DOMAIN cs : c \in cs[a]

\* C18: a connection is dropped only when its client has gone away: the
\* handler of a websocket whose client is still there never ends and the
\* websocket stays registered, also when another client connects or
\* disconnects while a broadcast is in progress.
C18_OnlyClientGoneDrops ==
    [][\A c \in Websockets :
         /\ (handler[c].pc \notin {"closed", "ended"}
                /\ handler'[c].pc = "ended") => c \in peer_gone
         /\ (Registered(connections, c) /\ ~Registered(connections', c))
                => c \in peer_gone]_vars

\* The sender of data on websocket c is not allowed to make the mutation it
\* asks for: an admin type from a role other than admin, a bid from a role
\* that is neither admin nor team_owner, or a team_owner naming a team
\* other than the one bound to its connection.
Unauthorized(c, data) ==
    \/ data.type \in admin_actions /\ handler[c].role # "admin"
    \/ /\ data.type = "bid:place"
       /\ \/ handler[c].role \notin {"admin", "team_owner"}
          \/ /\ handler[c].role = "team_owner"
             /\ data.team_id # Null
             /\ data.team_id # handler[c].team_id

\* C19: every mutation is authorized: a message from a sender that is not
\* allowed to make the mutation is answered with one forbidden error to
\* the sender alone, changes no stored row and starts no broadcast.
C19_MutationsAuthorized ==
    [][\A c \in Websockets : \A data \in InboundMessages :
         (handle_message(c, data) /\ Unauthorized(c, data)) =>
            /\ received' = [received EXCEPT
                               ![c] = Append(@, ErrorMessage("forbidden"))]
            /\ handler'[c].pc = "idle"
            /\ UNCHANGED StoredRows]_vars

\* The message data on websocket c passes the role and field checks of
\* handle_message and is handed to the auction manager.
ReachesManager(c, data) ==
    LET role == handler[c].role
        team_id == handler[c].team_id
        bid_team_id == IF data.team_id # Null THEN data.team_id ELSE team_id
    IN \/ /\ role = "admin"
          /\ \/ data.type \in {"player:sell", "player:unsold"}
             \/ /\ data.type = "player:present"
                /\ data.auction_player_id # Null
       \/ /\ data.type = "bid:place"
          /\ role \in {"admin", "team_owner"}
          /\ bid_team_id # Null
          /\ data.amount # Null
          /\ role = "team_owner" => bid_team_id = team_id

\* C20: when the auction manager rejects an operation requested over a
\* websocket, exactly one error message is sent, to that websocket only:
\* no other websocket receives anything, no state:update is broadcast and
\* the websocket stays open and registered.
C20_RejectionToSenderOnly ==
    [][\A c \in Websockets : \A data \in InboundMessages :
         (handle_message(c, data) /\ ReachesManager(c, data) /\ ~last'.ok) =>
            /\ received' = [received EXCEPT
                               ![c] = Append(@, ErrorMessage(NoCode))]
            /\ connections' = connections
            /\ Registered(connections', c)
            /\ handler'[c].pc = "idle"]_vars

\* A bid placed over a websocket has just been refused while another
\* websocket is registered for the same auction.
C20_Witness ==
    \E c \in Websockets :
        /\ last.op = "place_bid" /\ ~last.ok
        /\ row_lock = c
        /\ handler[c].pc = "idle"
        /\ Len(received[c]) > 0
        /\ received[c][Len(received[c])] = ErrorMessage(NoCode)
        /\ \E x \in connections[handler[c].auction_id] : x # c

\* Position of message m in the messages delivered to websocket x; 0 when
\* it was not delivered.
PositionOf(recv, x, m) ==
    IF Delivered(recv, x, m)
    THEN CHOOSE i \in DOMAIN recv[x] : recv[x][i] = m
    ELSE 0

\* The event message of commit number k is in front of position j of the
\* messages delivered to websocket x.
EventBefore(recv, x, k, j) ==
    \E i \in DOMAIN recv[x] :
        /\ i < j
        /\ recv[x][i].type \in {"bid:new", "player:sold"}
        /\ recv[x][i].cause = k

\* C21: after a successful mutating message every websocket registered for
\* the auction is sent the state:update snapshot, and after a successful
\* bid:place or player:sell it is sent the bid:new or player:sold event
\* first: when a loop of the handler ends, every websocket the loop began
\* with that is still registered has the loop's message, and has the event
\* of the same commit in front of the snapshot.
C21_SuccessBroadcastToAll ==
    [][\A c \in Websockets :
         (LoopOver(c) /\ handler[c].message.cause # Null) =>
            LET h == handler[c]
                k == h.message.cause
            IN \A x \in h.targets :
                  Registered(connections', x) =>
                     /\ Delivered(received', x, h.message)
                     /\ (h.message.type = "state:update"
                           /\ \E i \in DOMAIN received'[x] :
                                  /\ received'[x][i].type
                                        \in {"bid:new", "player:sold"}
                                  /\ received'[x][i].cause = k)
                          => EventBefore(received', x, k,
                                 PositionOf(received', x, h.message))]_vars

\* The status changes that the auction life cycle allows
ForwardTransitions ==
    {<<"draft", "live">>, <<"live", "paused">>, <<"paused", "live">>,
     <<"live", "completed">>, <<"paused", "completed">>}

\* C22: the stored status of the auction changes only along draft -> live,
\* live -> paused, paused -> live and live or paused -> completed: never
\* back to draft, never from draft to paused or completed, and never
\* after completed.
C22_StatusForwardOnly ==
    [][auction'.status # auction.status =>
         <<auction.status, auction'.status>> \in ForwardTransitions]_vars

\* C23: the admin drives the auction between live and paused in both
\* directions: an admin's auction:pause on a live auction makes the stored
\* status paused, and an admin's auction:resume on a paused auction makes
\* it live again, so that bids are accepted again.
C23_PauseAndResume ==
    [][\A c \in Websockets : \A data \in InboundMessages :
         (handle_message(c, data) /\ handler[c].role = "admin") =>
            /\ (data.type = "auction:pause" /\ auction.status = "live")
                  => auction'.status = "paused"
            /\ (data.type = "auction:resume" /\ auction.status = "paused")
                  => /\ auction'.status = "live"
                     /\ self_auction'.status = "live"]_vars

\* A handler of a websocket of auction a has not finished yet.
HandlerRunning(a) ==
    \E c \in Websockets :
        /\ handler[c].pc \notin {"closed", "ended"}
        /\ handler[c].auction_id = a

\* C24: a manager is cached for an auction only while the auction has a
\* registered websocket: once the set of an auction is empty and its
\* handlers have finished, no manager is cached for it.
C24_ManagerOnlyWhileConnected ==
    \A a \in managers :
        \/ a \in DOMAIN connections /\ connections[a] # {}
        \/ HandlerRunning(a)

\* C25: validate_bid and place_bid apply the same rules: while the
\* manager's loaded auction equals the stored one, validate_bid(team_id,
\* amount) returns valid exactly when place_bid would accept the bid, an
\* invalid bid gets the message of the first rule place_bid would refuse it
\* by, and validate_bid changes no stored row and not the loaded auction.
C25_ValidateMatchesPlace ==
    [][(last'.op = "validate_bid" /\ self_auction = auction) =>
         \A t \in TeamIdInputs, a \in BidAmounts :
            validate_bid(t, a) =>
               /\ last'.ok <=> place_bid_error(t, a) = ""
               /\ last'.reason = place_bid_error(t, a)
               /\ UNCHANGED StoredRows
               /\ UNCHANGED self_auction]_vars

\* validate_bid has just refused a bid of the team that is the highest
\* bidder, with the purse and the amount for it.
C25_Witness ==
    /\ last.op = "validate_bid" /\ ~last.ok
    /\ last.reason = "You are already the highest bidder"
    /\ self_auction = auction
    /\ auction.current_bid_team_id \in TeamIds

LastBidOn(p) == CHOOSE i \in BidsOn(p) : \A j \in BidsOn(p) : j <= i

\* C27: in every state current_bid is null exactly when
\* current_bid_team_id is null; when they are set, current_player_id is
\* set, the bidding team is a team of this auction, current_bid is at
\* least the current player's base_price, and the most recent bid row for
\* the current player has amount current_bid and team current_bid_team_id.
C27_SpotlightMatchesBidLog ==
    /\ auction.current_bid = Null <=> auction.current_bid_team_id = Null
    /\ auction.current_bid # Null =>
          LET cp == auction.current_player_id IN
          /\ cp \in AuctionPlayerIds
          /\ auction.current_bid_team_id \in TeamIds
          /\ auction.current_bid >= players[cp].base_price
          /\ BidsOn(cp) # {}
          /\ bids[LastBidOn(cp)].bid_amount = auction.current_bid
          /\ bids[LastBidOn(cp)].team_id = auction.current_bid_team_id

\* The current player has a bid, and the bid log also holds a bid on a
\* player that was displaced before.
C27_Witness ==
    /\ auction.current_bid # Null
    /\ auction.current_player_id \in AuctionPlayerIds
    /\ \E i \in DOMAIN bids :
          /\ bids[i].auction_player_id # auction.current_player_id
          /\ i < LastBidOn(auction.current_player_id)

\* Sum of bought_for over the first n roster rows that belong to team t
RECURSIVE BoughtFor(_, _)
BoughtFor(n, t) ==
    IF n = 0 THEN 0
    ELSE (IF team_players[n].team_id = t THEN team_players[n].bought_for
          ELSE 0) + BoughtFor(n - 1, t)

SoldTo(t) ==
    {p \in AuctionPlayerIds :
        players[p].status = "sold" /\ players[p].sold_to_team_id = t}

RosterOf(t) == {i \in DOMAIN team_players : team_players[i].team_id = t}

StateUpdates(c) ==
    {i \in DOMAIN received[c] : received[c][i].type = "state:update"}

\* The last state:update delivered to websocket c
LastStateUpdate(c) ==
    received[c][CHOOSE i \in StateUpdates(c) :
                    \A j \in StateUpdates(c) : j <= i]

\* No handler is in a broadcast or a connect, no handler has ended and no
\* client has gone away: every broadcast so far has completed and no send
\* has failed.
Quiescent ==
    /\ \A c \in Websockets : handler[c].pc \in {"closed", "idle"}
    /\ peer_gone = {}

\* C29: snapshots converge: when no mutation is in progress and every
\* broadcast has completed without a send failure, the last state:update
\* that each registered websocket of the auction received is the present
\* get_state() of the auction.
C29_SnapshotsConverge ==
    Quiescent =>
        \A c \in Websockets :
            (handler[c].pc = "idle" /\ handler[c].auction_id = AuctionId) =>
                /\ StateUpdates(c) # {}
                /\ LastStateUpdate(c).data = get_state_result

\* Status of every player and purse of every team
PlayerStatuses == [p \in AuctionPlayerIds |-> players[p].status]

Purses == [t \in TeamIds |-> teams[t].purse_remaining]

\* C30: a completed auction is frozen: while the stored status is
\* completed, no present_player, place_bid, sell_player or unsold_player
\* changes a player's status, a team's purse, the bid log or the spotlight
\* triple.
C30_CompletedFrozen ==
    [][(/\ auction.status = "completed"
        /\ last'.op \in {"present_player", "place_bid", "sell_player",
                         "unsold_player"})
         => /\ PlayerStatuses' = PlayerStatuses
            /\ Purses' = Purses
            /\ bids' = bids
            /\ auction' = auction]_vars
====
